---------------------------- MODULE Spec2Model ----------------------------
(***************************************************************************)
(* A model of httpretry's HttpGetter (getter.go) and QuittableBackOff      *)
(* (backoff.go): one getter, driven by one caller, against a transport     *)
(* that talks to a server serving a fixed resource.                        *)
(*                                                                         *)
(* The getter is the record g, whose fields carry the names of the Go      *)
(* struct.  The transport, the callbacks and the caller are the other      *)
(* variables.  Every method is an operator from a getter record (and the   *)
(* environment's choices) to a getter record and the method's results.     *)
(***************************************************************************)
EXTENDS Integers, Sequences, FiniteSets, TLC

(***************************************************************************)
(* Bounds of the model.                                                    *)
(***************************************************************************)
\* length of the resource the server serves, in bytes
ResLen == 2
\* requests the transport executes at most
MaxAttempts == 3
\* the underlying backoff generator's interval stops growing here
MaxInterval == 1
\* the inactivity timeouts a connection is dialed with: 1..MaxTimeout
MaxTimeout == 2
\* the clock of the connection's world stops here
MaxNow == 5

VARIABLES
    g,          \* the *HttpGetter
    srv,        \* the server's configuration: which headers it sends
    sent,       \* the number of requests the transport has executed
    lastReq,    \* the last of them, as connect sent it
    called,     \* the number of invocations of the response callback (rcb)
    seen,       \* what the last of them was given and saw
    first,      \* the first conclusive response the callback was given
    plain,      \* whether every attempt so far was a plain one
    closes,     \* the invocations of the close callback (ccb), in order
    delivered,  \* the bytes Read has returned to the caller, in order
    pc,         \* the caller's position: "new", "ready", or inside Do's Retry
    ret,        \* the last call that returned, and what it returned
    doCalls,    \* calls of Do so far: 0, 1 or 2 (= several)
    closeCalls, \* calls of Close so far: 0, 1 or 2 (= several)
    readErrs,   \* Reads that returned a Go error so far: 0, 1 or 2
    since,      \* what has happened after the last attempt
    conn        \* the connection the timeout dialer made, and its world

vars == <<g, srv, sent, lastReq, called, seen, first, plain, closes,
          delivered, pc,
          ret, doCalls, closeCalls, readErrs, since, conn>>

(***************************************************************************)
(* Values.                                                                 *)
(***************************************************************************)
Min(a, b) == IF a < b THEN a ELSE b

\* a count that tells none, one and several apart
Inc(n) == Min(n + 1, 2)

\* the caller's buffers hold up to the whole resource
BufLen == ResLen

\* the resource: byte i has the value i, so that order and repetition show
Resource == [i \in 1..ResLen |-> i]

\* the body a server writes along with an error status
ErrorBody == <<9>>

\* backoff.Stop
Stop == -1

\* no Range header on the request
NoRange == <<>>

\* g.Body == nil
NilBody == [state |-> "nil", data |-> <<>>, end |-> "EOF"]

\* a response body after Close(): every Read of it fails
ClosedBody == [state |-> "closed", data |-> <<>>, end |-> "closed"]

\* g.Header == nil
NilHeader == [set |-> FALSE, ar |-> "", cl |-> <<>>, req |-> 0]

\* SubSeq from offset `from` (0-based) to offset `to` (0-based, inclusive)
Slice(s, from, to) == SubSeq(s, from + 1, to + 1)

(***************************************************************************)
(* strconv: decimal strings are sequences of one-character strings.        *)
(***************************************************************************)
Digits == <<"0", "1", "2", "3", "4", "5", "6", "7", "8", "9">>

IsDigit(c) == \E i \in 1..10 : Digits[i] = c

DigitVal(c) == (CHOOSE i \in 1..10 : Digits[i] = c) - 1

RECURSIVE Itoa(_)
Itoa(n) == IF n < 10 THEN <<Digits[n + 1]>>
           ELSE Itoa(n \div 10) \o <<Digits[(n % 10) + 1]>>

RECURSIVE ParseDigits(_, _)
ParseDigits(s, acc) ==
    IF s = <<>> THEN acc
    ELSE ParseDigits(Tail(s), acc * 10 + DigitVal(Head(s)))

\* i, _ := strconv.ParseInt(s, 10, 0): the value, or 0 when s is no number
ParseInt(s) ==
    IF s # <<>> /\ \A i \in 1..Len(s) : IsDigit(s[i])
    THEN ParseDigits(s, 0)
    ELSE 0

(***************************************************************************)
(* backoff.go: QuittableBackOff{b, IsDone}.  The underlying generator b is *)
(* the number of waits it has handed out since its last Reset (its         *)
(* interval grows up to MaxInterval); whether it stops is its own affair   *)
(* (elapsed time), so `stop` is chosen by the environment.                 *)
(***************************************************************************)
NilBackOff == [set |-> FALSE, IsDone |-> FALSE, b |-> 0]

Done(b) == [b EXCEPT !.IsDone = TRUE]

Reset(b) == [b EXCEPT !.IsDone = FALSE, !.b = 0]

\* the underlying b.b.NextBackOff()
UnderlyingNext(n, stop) ==
    IF stop THEN [b |-> n, next |-> Stop]
    ELSE [b |-> Min(n + 1, MaxInterval), next |-> n]

\* NextBackOff that asks the underlying generator before it looks at IsDone
NextBackOffAsksFirst(b, stop) ==
    LET u == UnderlyingNext(b.b, stop)
    IN [b |-> [b EXCEPT !.b = u.b],
        next |-> IF b.IsDone = TRUE THEN Stop ELSE u.next]

NextBackOff(b, stop) ==
    IF b.IsDone = TRUE
    THEN [b |-> b, next |-> Stop]
    ELSE LET u == UnderlyingNext(b.b, stop)
         IN [b |-> [b EXCEPT !.b = u.b], next |-> u.next]

(***************************************************************************)
(* The transport and the server behind it (client.Do).  The server of the  *)
(* tests: the whole resource with 200 for a request without Range, the     *)
(* requested range with 206 for one with Range, 416 for a range that       *)
(* starts behind the resource.  The environment chooses what happens to    *)
(* an attempt:                                                             *)
(*   kind "err"   no response at all (a Go error)                          *)
(*   kind "zero"  a response with status code 0                            *)
(*   kind "s500"  a 500 with an error body                                 *)
(*   kind "s404"  a 404 with an error body                                 *)
(*   kind "ok"    the server serves the request                            *)
(*   kind "full"  the server ignores Range and sends the whole resource    *)
(* and cut: the number of body bytes that arrive before the connection     *)
(* drops, or NoCut for a body that arrives whole.                          *)
(***************************************************************************)
NoCut == <<>>

\* the headers the server sets on a response to request number n
ServerHeader(n, len) ==
    [set |-> TRUE,
     ar  |-> IF srv.ar THEN "bytes" ELSE "",
     cl  |-> CASE srv.cl = "ok"     -> Itoa(len)
               [] srv.cl = "absent" -> <<>>
               [] OTHER             -> <<"x">>,
     req |-> n]

\* a body of `data`, dropped after `cut` bytes when cut is given
ServerBody(data, cut) ==
    IF cut = NoCut THEN [state |-> "open", data |-> data, end |-> "EOF"]
    ELSE [state |-> "open", data |-> SubSeq(data, 1, cut[1]), end |-> "err"]

\* whether the server can satisfy a Range header
Satisfiable(range) == range[1] < ResLen /\ range[1] <= range[2]

\* the part of the resource a request with Range header `range` asks for
Requested(range) ==
    IF range = NoRange THEN Resource
    ELSE Slice(Resource, range[1], Min(range[2], ResLen - 1))

\* what the server answers to a request with Range header `range`
Serve(range, c) ==
  LET n == c.n IN
    CASE c.kind = "s500" ->
            [StatusCode |-> 500, Header |-> ServerHeader(n, Len(ErrorBody)),
             Body |-> ServerBody(ErrorBody, NoCut)]
      [] c.kind = "s404" ->
            [StatusCode |-> 404, Header |-> ServerHeader(n, Len(ErrorBody)),
             Body |-> ServerBody(ErrorBody, NoCut)]
      [] c.kind = "zero" ->
            [StatusCode |-> 0, Header |-> ServerHeader(n, 0),
             Body |-> ServerBody(<<>>, NoCut)]
      [] c.kind = "full" \/ range = NoRange ->
            [StatusCode |-> 200, Header |-> ServerHeader(n, ResLen),
             Body |-> ServerBody(Resource, c.cut)]
      [] OTHER ->
            IF Satisfiable(range)
            THEN [StatusCode |-> 206,
                  Header |-> ServerHeader(n, Len(Requested(range))),
                  Body |-> ServerBody(Requested(range), c.cut)]
            ELSE [StatusCode |-> 416,
                  Header |-> ServerHeader(n, Len(ErrorBody)),
                  Body |-> ServerBody(ErrorBody, NoCut)]

\* the places where a body of len bytes can be cut
Cuts(len) == {NoCut} \cup {<<k>> : k \in 0..len}

\* what can happen to a request with Range header `range`: it fails, or it
\* is served and its body arrives whole or cut.  n is its number, counted
\* by the transport.
ChoicesFor(range) ==
    [kind : {"err", "zero", "s500", "s404"}, cut : {NoCut}, n : {sent + 1}]
    \cup [kind : {"ok"},
          cut : IF range = NoRange THEN Cuts(ResLen)
                ELSE IF Satisfiable(range) THEN Cuts(Len(Requested(range)))
                ELSE {NoCut},
          n : {sent + 1}]
    \cup [kind : IF range = NoRange THEN {} ELSE {"full"},
          cut : Cuts(ResLen), n : {sent + 1}]

\* the choice handed to a call that does not reach the transport
NoChoice == [kind |-> "err", cut |-> NoCut, n |-> 0]

\* res, err := g.client.Do(g.Request)
ClientDo(range, c) ==
    IF c.kind = "err"
    THEN [err |-> "transport",
          res |-> [StatusCode |-> 0, Header |-> NilHeader, Body |-> NilBody]]
    ELSE [err |-> "nil", res |-> Serve(range, c)]

(***************************************************************************)
(* getter.go                                                               *)
(***************************************************************************)
\* Getter(req): &HttpGetter{Request: req}; Range is the request's Range header
Getter ==
    [Range         |-> NoRange,
     Body          |-> NilBody,
     Attempts      |-> 0,
     ContentLength |-> 0,
     BytesRead     |-> 0,
     StatusCode    |-> 0,
     Header        |-> NilHeader,
     hasher        |-> <<>>,
     b             |-> NilBackOff,
     next          |-> 0,
     closed        |-> FALSE]

\* SetBackOff(b): a fresh QuittableBackOff around b
SetBackOff(gg) == [gg EXCEPT !.b = [set |-> TRUE, IsDone |-> FALSE, b |-> 0]]

\* reset that also forgets how far the download has come
resetForgetsOffset(gg) == [gg EXCEPT !.Body = NilBody, !.BytesRead = 0]

\* reset(): closes and forgets the body
reset(gg) ==
    IF gg.Body.state # "nil" THEN [gg EXCEPT !.Body = NilBody] ELSE gg

\* setResponse without its guard: every response handed to it is recorded
setResponseOverwrites(gg, res) ==
    LET g1 == [gg EXCEPT !.StatusCode = res.StatusCode,
                         !.Header = res.Header]
        g2 == IF g1.Header.ar # "bytes"
              THEN [g1 EXCEPT !.b = Done(@)] ELSE g1
    IN [g2 EXCEPT !.ContentLength = ParseInt(res.Header.cl)]

\* setResponse that does not look at Accept-Ranges
setResponseAnyRanges(gg, res) ==
    IF gg.StatusCode > 0 THEN gg
    ELSE [gg EXCEPT !.StatusCode = res.StatusCode,
                    !.Header = res.Header,
                    !.ContentLength = ParseInt(res.Header.cl)]

\* setResponse(res)
setResponse(gg, res) ==
    IF gg.StatusCode > 0 THEN gg
    ELSE LET g1 == [gg EXCEPT !.StatusCode = res.StatusCode,
                              !.Header = res.Header]
             g2 == IF g1.Header.ar # "bytes"
                   THEN [g1 EXCEPT !.b = Done(@)] ELSE g1
         IN [g2 EXCEPT !.ContentLength = ParseInt(res.Header.cl)]

\* the status connect expects, from the getter as connect finds it
ExpectedStatus(gg) ==
    IF gg.BytesRead > 0 /\ gg.ContentLength > 0 THEN 206 ELSE 200

\* a Range header that ends at ContentLength instead of ContentLength - 1
WithRangeToContentLength(gg) ==
    IF gg.BytesRead > 0 /\ gg.ContentLength > 0
    THEN [gg EXCEPT !.Range = <<gg.BytesRead, gg.ContentLength>>]
    ELSE gg

\* the request as connect sends it: the Range header is set on a resume
WithRange(gg) ==
    IF gg.BytesRead > 0 /\ gg.ContentLength > 0
    THEN [gg EXCEPT !.Range = <<gg.BytesRead, gg.ContentLength - 1>>]
    ELSE gg

\* g.rcb(res, err): what the response callback is called with, and the
\* getter it finds at that moment
Observed(gg, r) ==
    [err |-> r.err, StatusCode |-> r.res.StatusCode,
     Header |-> r.res.Header, g |-> gg]

\* only the statuses above 599 stop the retries: a 4xx is retried like a 5xx
NotRetriedAbove599(status) == status > 599

\* a status that stops the retries when it is not the expected one:
\* res.StatusCode > 0 && (res.StatusCode < 500 || res.StatusCode > 599)
NotRetried(status) == status > 0 /\ (status < 500 \/ status > 599)

\* connect that closes the body of every response with an unexpected status,
\* not only when it expected a 206
connectOutcomeClosesBody(gg, r, expectedStatus) ==
    IF r.err # "nil" THEN [g |-> gg, err |-> r.err]
    ELSE IF r.res.StatusCode = 0 THEN [g |-> gg, err |-> "EmptyResponse"]
    ELSE
      LET g1 == [gg EXCEPT !.Body = r.res.Body]
      IN IF r.res.StatusCode = expectedStatus
         THEN [g |-> setResponse(g1, r.res), err |-> "nil"]
         ELSE
           LET g2 == reset(g1)
               g3 == IF NotRetried(r.res.StatusCode)
                     THEN LET s == setResponse(g2, r.res)
                          IN [s EXCEPT !.b = Done(@)]
                     ELSE g2
           IN [g |-> g3, err |-> "status"]

\* connect's handling of the response without the reset of a refused resume
connectOutcomeKeepsBody(gg, r, expectedStatus) ==
    IF r.err # "nil" THEN [g |-> gg, err |-> r.err]
    ELSE IF r.res.StatusCode = 0 THEN [g |-> gg, err |-> "EmptyResponse"]
    ELSE
      LET g1 == [gg EXCEPT !.Body = r.res.Body]
      IN IF r.res.StatusCode = expectedStatus
         THEN [g |-> setResponse(g1, r.res), err |-> "nil"]
         ELSE
           LET g3 == IF NotRetried(r.res.StatusCode)
                     THEN LET s == setResponse(g1, r.res)
                          IN [s EXCEPT !.b = Done(@)]
                     ELSE [g1 EXCEPT !.Body = ClosedBody]
           IN [g |-> g3, err |-> "status"]

\* connect, after the transport has answered and the callback has run
connectOutcome(gg, r, expectedStatus) ==
    IF r.err # "nil" THEN [g |-> gg, err |-> r.err]
    ELSE IF r.res.StatusCode = 0 THEN [g |-> gg, err |-> "EmptyResponse"]
    ELSE
      LET g1 == [gg EXCEPT !.Body = r.res.Body]
      IN IF r.res.StatusCode = expectedStatus
         THEN [g |-> setResponse(g1, r.res), err |-> "nil"]
         ELSE
           LET g2 == IF expectedStatus = 206 THEN reset(g1) ELSE g1
               g3 == IF NotRetried(r.res.StatusCode)
                     THEN LET s == setResponse(g2, r.res)
                          IN [s EXCEPT !.b = Done(@)]
                     \* io.Copy(ioutil.Discard, res.Body); res.Body.Close():
                     \* g.Body, when still set, is this very body
                     ELSE [g2 EXCEPT !.Body =
                              IF @.state = "nil" THEN @ ELSE ClosedBody]
           IN [g |-> g3, err |-> "status"]

\* connect that tells the response callback of responses only, not of
\* transport errors
connectSilentOnError(gg, c) ==
    IF gg.b.IsDone
    THEN [g |-> gg, err |-> "EOF", sent |-> <<>>, rcb |-> <<>>]
    ELSE
      LET expectedStatus == ExpectedStatus(gg)
          g1  == WithRange(gg)
          r   == ClientDo(g1.Range, c)
          g2  == [g1 EXCEPT !.Attempts = @ + 1]
          out == connectOutcome(g2, r, expectedStatus)
      IN [g    |-> out.g,
          err  |-> out.err,
          sent |-> <<[Range |-> g1.Range, expected |-> expectedStatus]>>,
          rcb  |-> IF r.err # "nil" THEN <<>> ELSE <<Observed(g2, r)>>]

\* connect that fails with an error of its own when the latch is set
connectExhausted(gg, c) ==
    IF gg.b.IsDone
    THEN [g |-> gg, err |-> "exhausted", sent |-> <<>>, rcb |-> <<>>]
    ELSE
      LET expectedStatus == ExpectedStatus(gg)
          g1  == WithRange(gg)
          r   == ClientDo(g1.Range, c)
          g2  == [g1 EXCEPT !.Attempts = @ + 1]
          out == connectOutcome(g2, r, expectedStatus)
      IN [g    |-> out.g,
          err  |-> out.err,
          sent |-> <<[Range |-> g1.Range, expected |-> expectedStatus]>>,
          rcb  |-> <<Observed(g2, r)>>]

\* connect that writes the Range header before it looks at the latch
connectRangeFirst(gg, c) ==
    LET expectedStatus == ExpectedStatus(gg)
        g1  == WithRange(gg)
        r   == ClientDo(g1.Range, c)
        g2  == [g1 EXCEPT !.Attempts = @ + 1]
        out == connectOutcome(g2, r, expectedStatus)
    IN IF gg.b.IsDone
       THEN [g |-> g1, err |-> "EOF", sent |-> <<>>, rcb |-> <<>>]
       ELSE [g    |-> out.g,
             err  |-> out.err,
             sent |-> <<[Range |-> g1.Range, expected |-> expectedStatus]>>,
             rcb  |-> <<Observed(g2, r)>>]

\* connect(): c is the environment's choice for this attempt.  sent and rcb
\* are the request handed to the transport and the callback's invocation.
connect(gg, c) ==
    IF gg.b.IsDone
    THEN [g |-> gg, err |-> "EOF", sent |-> <<>>, rcb |-> <<>>]
    ELSE
      LET expectedStatus == ExpectedStatus(gg)
          g1  == WithRange(gg)
          r   == ClientDo(g1.Range, c)
          g2  == [g1 EXCEPT !.Attempts = @ + 1]
          out == connectOutcome(g2, r, expectedStatus)
      IN [g    |-> out.g,
          err  |-> out.err,
          sent |-> <<[Range |-> g1.Range, expected |-> expectedStatus]>>,
          rcb  |-> <<Observed(g2, r)>>]

\* g.Body.Read(b): the body hands out k bytes, and its end (EOF, or the
\* error that cut it) along with the last of them when fin, on the Read
\* after them otherwise
BodyRead(body, k, fin) ==
    IF body.state = "closed"
    THEN [body |-> body, data |-> <<>>, err |-> "closed"]
    ELSE LET atEnd == k = Len(body.data) /\ (fin \/ k = 0)
         IN [body |-> [body EXCEPT !.data = SubSeq(@, k + 1, Len(@))],
             data |-> SubSeq(body.data, 1, k),
             err  |-> IF atEnd THEN body.end ELSE "nil"]

\* the bytes a body hands out into a buffer of n bytes: as many as fit, at
\* least one while there are any
ReadSize(body, n) == Min(n, Len(body.data))

\* a Read that returns on the body's error before it counts and hashes the
\* bytes that came with it
readBodyUncountedEnd(gg, n, fin) ==
    LET r  == BodyRead(gg.Body, ReadSize(gg.Body, n), fin)
        g1 == [gg EXCEPT !.Body = r.body]
    IN IF r.err # "nil"
       THEN [g |-> reset(g1), data |-> r.data,
             err |-> IF r.err # "EOF" THEN "nil" ELSE "EOF"]
       ELSE [g |-> [g1 EXCEPT !.BytesRead = @ + Len(r.data),
                              !.hasher = @ \o r.data],
             data |-> r.data, err |-> "nil"]

\* a Read that hands the body's error to the caller, whatever it is
readBodySurfaces(gg, n, fin) ==
    LET r  == BodyRead(gg.Body, ReadSize(gg.Body, n), fin)
        g1 == [gg EXCEPT !.Body = r.body]
        g2 == IF Len(r.data) > 0
              THEN [g1 EXCEPT !.BytesRead = @ + Len(r.data),
                              !.hasher = @ \o r.data]
              ELSE g1
    IN IF r.err # "nil"
       THEN [g |-> reset(g2), data |-> r.data, err |-> r.err]
       ELSE [g |-> g2, data |-> r.data, err |-> "nil"]

\* the second half of Read: read, err := g.Body.Read(b) and what follows
readBody(gg, n, fin) ==
    LET r  == BodyRead(gg.Body, ReadSize(gg.Body, n), fin)
        g1 == [gg EXCEPT !.Body = r.body]
        g2 == IF Len(r.data) > 0
              THEN [g1 EXCEPT !.BytesRead = @ + Len(r.data),
                              !.hasher = @ \o r.data]
              ELSE g1
    IN IF r.err # "nil"
       THEN [g |-> reset(g2), data |-> r.data,
             err |-> IF r.err # "EOF" THEN "nil" ELSE "EOF"]
       ELSE [g |-> g2, data |-> r.data, err |-> "nil"]

\* Read that returns the attempt's error also when the backoff grants a wait
ReadCallSurfaces(gg, c, stop, n, fin) ==
    IF gg.Body.state = "nil"
    THEN LET a == connect(gg, c)
         IN IF a.err # "nil"
            THEN LET nb == NextBackOff(a.g.b, stop)
                     g1 == [a.g EXCEPT !.b = nb.b, !.next = nb.next]
                 IN [g |-> g1, data |-> <<>>, err |-> a.err,
                     sent |-> a.sent, rcb |-> a.rcb, next |-> <<nb.next>>]
            ELSE LET g1 == [a.g EXCEPT !.b = Reset(@)]
                     rb == readBody(g1, n, fin)
                 IN [g |-> rb.g, data |-> rb.data, err |-> rb.err,
                     sent |-> a.sent, rcb |-> a.rcb, next |-> <<>>]
    ELSE LET rb == readBody(gg, n, fin)
         IN [g |-> rb.g, data |-> rb.data, err |-> rb.err,
             sent |-> <<>>, rcb |-> <<>>, next |-> <<>>]

\* Read(b) with len(b) = n.  c, stop and fin are the environment's: the fate
\* of the attempt, the underlying backoff's answer, the body's way of ending.
\* next is the backoff's answer when it was asked.
ReadCall(gg, c, stop, n, fin) ==
    IF gg.Body.state = "nil"
    THEN LET a == connect(gg, c)
         IN IF a.err # "nil"
            THEN LET nb == NextBackOff(a.g.b, stop)
                     g1 == [a.g EXCEPT !.b = nb.b, !.next = nb.next]
                 IN [g |-> g1, data |-> <<>>,
                     err |-> IF nb.next = Stop THEN a.err ELSE "nil",
                     sent |-> a.sent, rcb |-> a.rcb, next |-> <<nb.next>>]
            ELSE LET g1 == [a.g EXCEPT !.b = Reset(@)]
                     rb == readBody(g1, n, fin)
                 IN [g |-> rb.g, data |-> rb.data, err |-> rb.err,
                     sent |-> a.sent, rcb |-> a.rcb, next |-> <<>>]
    ELSE LET rb == readBody(gg, n, fin)
         IN [g |-> rb.g, data |-> rb.data, err |-> rb.err,
             sent |-> <<>>, rcb |-> <<>>, next |-> <<>>]

\* Close that starts the hash afresh
CloseCallResetsHash(gg) ==
    LET g1 == [gg EXCEPT !.b = Done(@), !.hasher = <<>>]
        g2 == IF ~g1.closed THEN [g1 EXCEPT !.closed = TRUE] ELSE g1
    IN [g   |-> reset(g2),
        ccb |-> IF ~g1.closed THEN <<[Attempts |-> g1.Attempts]>> ELSE <<>>]

\* Close without the closed flag: the close callback runs on every Close
CloseCallUnguarded(gg) ==
    LET g1 == [gg EXCEPT !.b = Done(@)]
    IN [g   |-> reset([g1 EXCEPT !.closed = TRUE]),
        ccb |-> <<[Attempts |-> g1.Attempts]>>]

\* Close(): ccb is the close callback's invocation, if any
CloseCall(gg) ==
    LET g1 == [gg EXCEPT !.b = Done(@)]
        g2 == IF ~g1.closed THEN [g1 EXCEPT !.closed = TRUE] ELSE g1
    IN [g   |-> reset(g2),
        ccb |-> IF ~g1.closed THEN <<[Attempts |-> g1.Attempts]>> ELSE <<>>]

\* Sha256(): the digest of what was written to the hasher; a digest stands
\* for the byte sequence it was computed from
Sha256(gg) == <<"sha256", gg.hasher>>

\* Do(), up to the first call of connect inside backoff.Retry: the defaults
\* are installed, Retry resets the backoff, then calls the operation
DoReady(gg) ==
    LET g1 == IF ~gg.b.set THEN SetBackOff(gg) ELSE gg
    IN [g1 EXCEPT !.b = Reset(@)]

DoCall(gg, c) == connect(DoReady(gg), c)

\* Retry that asks the underlying policy and never looks at the latch
RetryNextUnderlying(gg, stop) ==
    LET u == UnderlyingNext(gg.b.b, stop)
    IN [g |-> [gg EXCEPT !.b.b = u.b], next |-> u.next]

\* backoff.Retry after a failed operation: next = b.NextBackOff()
RetryNextBackOff(gg, stop) ==
    LET nb == NextBackOff(gg.b, stop)
    IN [g |-> [gg EXCEPT !.b = nb.b], next |-> nb.next]

(***************************************************************************)
(* The state machine.                                                      *)
(***************************************************************************)
\* whether a call of connect on gg reaches the transport
Attempting(gg) == ~gg.b.IsDone

\* the buffer sizes that make a difference to a read of body, and whether
\* it matters if the end comes with the last bytes
BufferSizes(body) ==
    1..Min(BufLen, IF body.data = <<>> THEN 1 ELSE Len(body.data))

Endings(body, n) ==
    IF body.state = "open" /\ body.data # <<>> /\ n >= Len(body.data)
    THEN BOOLEAN ELSE {FALSE}

NoRet == [op |-> "none", n |-> 0, err |-> "nil", StatusCode |-> 0,
          Header |-> NilHeader]

DoRet(gg) == [op |-> "Do", n |-> 0, err |-> "nil",
              StatusCode |-> gg.StatusCode, Header |-> gg.Header]

ReadRet(data, err) == [op |-> "Read", n |-> Len(data), err |-> err,
                       StatusCode |-> 0, Header |-> NilHeader]

CloseRet == [op |-> "Close", n |-> 0, err |-> "nil", StatusCode |-> 0,
             Header |-> NilHeader]

\* no request yet, no callback yet, no response recorded yet
NoRequest == [Range |-> NoRange, expected |-> 0]

NoneObserved == [err |-> "nil", StatusCode |-> 0, Header |-> NilHeader,
                 Attempts |-> 0, early |-> TRUE]

\* what is kept of an invocation of the response callback: what it was
\* given, the Attempts it read from the getter, and whether the getter it
\* found was the one that made the request, untouched by the outcome
Kept(o, before) ==
    [err |-> o.err, StatusCode |-> o.StatusCode, Header |-> o.Header,
     Attempts |-> o.g.Attempts,
     early |-> o.g = [WithRange(before) EXCEPT !.Attempts = @ + 1]]

NoFirst == [StatusCode |-> 0, Header |-> NilHeader, by |-> "none"]

\* the last element of a sequence of at most one, or the old value
Latest(old, s) == IF s = <<>> THEN old ELSE s[1]

\* a response that connect does not retry: any status but 0 and 5xx
Conclusive(o) ==
    o.err = "nil" /\ o.StatusCode > 0 /\
    (o.StatusCode < 500 \/ o.StatusCode > 599)

\* the first conclusive response the callback has been shown, and the call
\* (op: "Do" or "Read") that made the attempt
FirstOf(old, s, op) ==
    IF old = NoFirst /\ s # <<>> /\ Conclusive(s[1])
    THEN [StatusCode |-> s[1].StatusCode, Header |-> s[1].Header, by |-> op]
    ELSE old

\* the attempts that are a transport error, a 5xx, or a request served as
\* asked (its body whole or cut)
Plain(c) == c.kind \in {"err", "s500", "ok"}

\* what has happened after the last attempt: it succeeded ("ok"), it failed
\* ("failed"), and then the backoff was asked and said stop ("stopped") or
\* gave a wait, which has elapsed ("waited")
SinceAttempt(old, a) ==
    IF a.sent = <<>> THEN old
    ELSE IF a.err = "nil" THEN "ok" ELSE "failed"

SinceNext(old, next) ==
    IF old # "failed" THEN old
    ELSE IF next = Stop THEN "stopped" ELSE "waited"

\* the transport's and the callback's side of a call of connect on gg, made
\* by op, with the environment's choice c
Attempted(gg, a, c, op) ==
    /\ sent' = sent + Len(a.sent)
    /\ lastReq' = Latest(lastReq, a.sent)
    /\ called' = called + Len(a.rcb)
    /\ seen' = IF a.rcb = <<>> THEN seen ELSE Kept(a.rcb[1], gg)
    /\ first' = FirstOf(first, a.rcb, op)
    /\ plain' = (plain /\ (a.sent # <<>> => Plain(c)))


(***************************************************************************)
(* http_client.go: the connection the timeout dialer makes.  conn.now is   *)
(* the clock; conn.deadline the deadline set on the underlying net.Conn,   *)
(* <<>> while none is set; conn.touched tells whether the last Read or     *)
(* Write of the deadlineConn has called the underlying Conn.Read or        *)
(* Conn.Write; conn.silent is how long the peer let that call wait.        *)
(***************************************************************************)
\* no connection dialed yet
NoConn ==
    [pc |-> "none", Timeout |-> 0, now |-> 0, deadline |-> <<>>,
     op |-> "none", touched |-> FALSE, silent |-> 0,
     ret |-> [n |-> 0, err |-> "nil"]]

\* &deadlineConn{actTimeout, c}
DeadlineConn(c, actTimeout) ==
    [c EXCEPT !.pc = "idle", !.Timeout = actTimeout]

\* a deadline that is the timeout itself, not a time after now
AddToZero(now, d) == d

\* time.Now().Add(d)
Add(now, d) == now + d

\* c.Conn.SetDeadline(time.Now().Add(c.Timeout)), which fails when ~ok
SetDeadline(c, ok) ==
    IF ok THEN [c |-> [c EXCEPT !.deadline = <<Add(c.now, c.Timeout)>>],
                err |-> "nil"]
    ELSE [c |-> c, err |-> "deadline"]

\* the first half of deadlineConn.Read and Write: on an error of SetDeadline
\* return 0, err; otherwise go on to the underlying call
Begin(c, op, ok) ==
    LET s  == SetDeadline(c, ok)
        c1 == [s.c EXCEPT !.op = op, !.touched = FALSE]
    IN IF s.err # "nil"
       THEN [c1 EXCEPT !.ret = [n |-> 0, err |-> s.err]]
       ELSE [c1 EXCEPT !.pc = "armed"]

\* the underlying c.Conn.Read(b) or c.Conn.Write(b) when the peer lets it
\* wait for d: it returns bytes when they move before the deadline, a
\* timeout at the deadline when they would move after it, and either (late)
\* when both fall together
ConnIO(c, d, late) ==
    LET at       == c.now + d
        deadline == c.deadline[1]
        timeout  == at > deadline \/ (at = deadline /\ late)
    IN [c EXCEPT !.pc = "idle", !.touched = TRUE, !.silent = d,
                 !.now = IF timeout THEN (IF c.now > deadline THEN c.now
                                          ELSE deadline)
                         ELSE at,
                 !.ret = IF timeout THEN [n |-> 0, err |-> "timeout"]
                         ELSE [n |-> 1, err |-> "nil"]]

\* the getter is not involved in what happens on the connection
GetterVars == <<g, srv, sent, lastReq, called, seen, first, plain, closes,
                delivered, pc, ret, doCalls, closeCalls, readErrs, since>>

\* DialWithTimeouts(...)(netw, addr): net.DialTimeout succeeds
Dial ==
    /\ conn.pc = "none"
    /\ \E actTimeout \in 1..MaxTimeout :
          conn' = DeadlineConn(conn, actTimeout)
    /\ UNCHANGED GetterVars

\* the transport calls Read on the connection
ConnRead ==
    /\ conn.pc = "idle"
    /\ conn.now + conn.Timeout <= MaxNow
    /\ \E ok \in BOOLEAN : conn' = Begin(conn, "Read", ok)
    /\ UNCHANGED GetterVars

\* the transport calls Write on the connection
ConnWrite ==
    /\ conn.pc = "idle"
    /\ conn.now + conn.Timeout <= MaxNow
    /\ \E ok \in BOOLEAN : conn' = Begin(conn, "Write", ok)
    /\ UNCHANGED GetterVars

\* the underlying call returns
ConnReturn ==
    /\ conn.pc = "armed"
    /\ \E d \in 0..(conn.Timeout + 1) : \E late \in BOOLEAN :
          conn' = ConnIO(conn, d, late)
    /\ UNCHANGED GetterVars

\* time passes while the connection is idle
Tick ==
    /\ conn.pc = "idle"
    /\ conn.now < MaxNow
    /\ conn' = [conn EXCEPT !.now = @ + 1]
    /\ UNCHANGED GetterVars

Init ==
    /\ g = Getter
    /\ srv \in [ar : BOOLEAN, cl : {"ok", "absent", "bad"}]
    /\ sent = 0
    /\ lastReq = NoRequest
    /\ called = 0
    /\ seen = NoneObserved
    /\ first = NoFirst
    /\ plain = TRUE
    /\ closes = <<>>
    /\ delivered = <<>>
    /\ pc = "new"
    /\ ret = NoRet
    /\ doCalls = 0
    /\ closeCalls = 0
    /\ readErrs = 0
    /\ since = "none"
    /\ conn = NoConn

\* the caller calls Do: up to the return of the first attempt
Do ==
    /\ pc \in {"new", "ready"}
    /\ g.Attempts < MaxAttempts
    /\ \E c \in ChoicesFor(WithRange(g).Range) :
          LET a == DoCall(g, c)
          IN /\ g' = a.g
             /\ Attempted(DoReady(g), a, c, "Do")
             /\ since' = SinceAttempt(since, a)
             /\ IF a.err = "nil"
                THEN pc' = "ready" /\ ret' = DoRet(a.g)
                ELSE pc' = "next" /\ ret' = ret
    /\ doCalls' = Inc(doCalls)
    /\ UNCHANGED <<conn, srv, closes, delivered, closeCalls, readErrs>>

\* inside Retry: the operation failed, the backoff is asked; on Stop, Retry
\* and Do return, otherwise Retry sleeps
RetryNext ==
    /\ pc = "next"
    /\ \E stop \in IF g.b.IsDone THEN {FALSE} ELSE BOOLEAN :
          LET nb == RetryNextBackOff(g, stop)
          IN /\ g' = nb.g
             /\ since' = SinceNext(since, nb.next)
             /\ IF nb.next = Stop
                THEN pc' = "ready" /\ ret' = DoRet(nb.g)
                ELSE pc' = "operation" /\ ret' = ret
    /\ UNCHANGED <<conn, srv, sent, lastReq, called, seen, first, plain, closes,
                   delivered, doCalls, closeCalls, readErrs>>

\* inside Retry: after the sleep, the operation is called again
RetryOperation ==
    /\ pc = "operation"
    /\ g.Attempts < MaxAttempts
    /\ \E c \in ChoicesFor(WithRange(g).Range) :
          LET a == connect(g, c)
          IN /\ g' = a.g
             /\ Attempted(g, a, c, "Do")
             /\ since' = SinceAttempt(since, a)
             /\ IF a.err = "nil"
                THEN pc' = "ready" /\ ret' = DoRet(a.g)
                ELSE pc' = "next" /\ ret' = ret
    /\ UNCHANGED <<conn, srv, closes, delivered, doCalls, closeCalls, readErrs>>

\* the caller has called Read, the environment chose c, and r came of it
Returned(r, c) ==
    /\ g' = r.g
    /\ Attempted(g, r, c, "Read")
    /\ delivered' = delivered \o r.data
    /\ ret' = ReadRet(r.data, r.err)
    /\ readErrs' = IF r.err # "nil" THEN Inc(readErrs) ELSE readErrs
    /\ since' = IF r.next # <<>>
                THEN SinceNext(IF r.sent = <<>> THEN since ELSE "failed",
                               r.next[1])
                ELSE IF r.sent # <<>> THEN "ok" ELSE since
    /\ UNCHANGED <<conn, srv, closes, pc, doCalls, closeCalls>>

\* the caller calls Read while a body is open
ReadOpen ==
    /\ pc = "ready"
    /\ g.Body.state # "nil"
    /\ \E n \in BufferSizes(g.Body) : \E fin \in Endings(g.Body, n) :
          Returned(ReadCall(g, NoChoice, FALSE, n, fin), NoChoice)

\* the caller calls Read while no body is open and the latch is set
ReadDone ==
    /\ pc = "ready"
    /\ g.Body.state = "nil"
    /\ ~Attempting(g)
    /\ Returned(ReadCall(g, NoChoice, FALSE, 1, FALSE), NoChoice)

\* the caller calls Read while no body is open: Read connects
ReadConnect ==
    /\ pc = "ready"
    /\ g.Body.state = "nil"
    /\ Attempting(g)
    /\ g.Attempts < MaxAttempts
    /\ \E c \in ChoicesFor(WithRange(g).Range) :
          LET a == connect(g, c)
          IN IF a.err # "nil"
             THEN \E stop \in IF a.g.b.IsDone THEN {FALSE} ELSE BOOLEAN :
                     Returned(ReadCall(g, c, stop, 1, FALSE), c)
             ELSE \E n \in BufferSizes(a.g.Body) :
                     \E fin \in Endings(a.g.Body, n) :
                        Returned(ReadCall(g, c, FALSE, n, fin), c)

\* the caller calls Close
Close ==
    /\ pc = "ready"
    /\ LET r == CloseCall(g)
       IN /\ g' = r.g
          /\ closes' = closes \o r.ccb
    /\ ret' = CloseRet
    /\ closeCalls' = Inc(closeCalls)
    /\ UNCHANGED <<conn, srv, sent, lastReq, called, seen, first, plain, delivered,
                   pc, doCalls, readErrs, since>>

Next == Do \/ RetryNext \/ RetryOperation \/ ReadOpen \/ ReadDone
           \/ ReadConnect \/ Close

Spec == Init /\ [][Next]_vars

\* the connection alone: what the transport does with it
ConnNext == Dial \/ ConnRead \/ ConnWrite \/ ConnReturn \/ Tick

ConnSpec == Init /\ [][ConnNext]_vars


(***************************************************************************)
(* Properties                                                              *)
(***************************************************************************)

IsPrefix(s, t) == Len(s) <= Len(t) /\ s = SubSeq(t, 1, Len(s))

\* a step that is a call of Read, from its entry to its return
IsRead == pc = "ready" /\ pc' = "ready" /\ ret'.op = "Read"

\* the last call that has returned is a call of op
Last(op) == pc = "ready" /\ ret.op = op

\* the caller has called Do once, and since its return only Read
ReadLoop == doCalls = 1 /\ closeCalls = 0 /\ pc = "ready"

\* C1: in a sequence Do, Read* whose attempts are transport errors, 5xx
\* responses or requests served as asked (body whole or cut), and whose
\* first response is a 200 with Accept-Ranges: bytes, the bytes Read has
\* returned so far are a prefix of the resource, whatever the Content-Length
\* header is.
C1_DeliveredIsPrefix ==
    (/\ doCalls <= 1 /\ closeCalls = 0 /\ readErrs = 0
     /\ plain
     /\ first.StatusCode = 200 /\ first.Header.ar = "bytes")
    => IsPrefix(delivered, Resource)

\* the same with a Content-Length header that gives the resource's length
PrefixWithContentLength ==
    (/\ plain
     /\ first.StatusCode = 200 /\ first.Header.ar = "bytes" /\ srv.cl = "ok")
    => IsPrefix(delivered, Resource)

\* the read loop that followed a Do which returned 200 has just ended: Read
\* has returned io.EOF, the first error of the loop
LoopEndedEOF ==
    /\ ReadLoop
    /\ first.by = "Do" /\ first.StatusCode = 200
    /\ Last("Read") /\ ret.err = "EOF" /\ readErrs = 1

\* the whole resource has been delivered, counted and hashed, once
WholeResource ==
    /\ g.BytesRead = Len(Resource)
    /\ delivered = Resource
    /\ Sha256(g) = <<"sha256", Resource>>

\* C2 as stated: whenever the read loop after a Do that returned 200 ends
\* with io.EOF, BytesRead is the resource's length (which the first response
\* gave as Content-Length), and the bytes delivered and hashed are the whole
\* resource.
C2_EOFMeansWhole ==
    (LoopEndedEOF /\ g.ContentLength = Len(Resource))
    => (g.BytesRead = g.ContentLength /\ WholeResource)

\* C2, amended: the same, for a first response that also carries
\* Accept-Ranges: bytes.
C2_EOFMeansWholeWithRanges ==
    (/\ LoopEndedEOF
     /\ g.Header.ar = "bytes"
     /\ g.ContentLength = Len(Resource))
    => (g.BytesRead = g.ContentLength /\ WholeResource)

\* C2: a download that was resumed after a drop has ended with io.EOF
C2_ResumedToEOF ==
    /\ LoopEndedEOF
    /\ g.Header.ar = "bytes" /\ g.ContentLength = Len(Resource)
    /\ lastReq.Range # NoRange /\ lastReq.expected = 206
    /\ WholeResource

\* the first successful response was a 200 without Accept-Ranges: bytes,
\* and the caller has called Do once
NoRangesFirst ==
    doCalls = 1 /\ pc = "ready" /\
    first.StatusCode = 200 /\ first.Header.ar # "bytes"

\* after it, no Read makes an attempt
NoRangesNoAttempt ==
    [][(NoRangesFirst /\ IsRead) => g'.Attempts = g.Attempts]_vars

\* C3: once the first successful response lacks Accept-Ranges: bytes, the
\* backoff latch is set and no later Read increases Attempts, whether Do or
\* a reconnect inside Read obtained that response.
C3_NoRangesNoRetry ==
    [](NoRangesFirst => g.b.IsDone) /\ NoRangesNoAttempt

\* after a Close
Closed == closeCalls > 0

\* C5: after Close has returned, no call on the getter executes a request:
\* Attempts, the callback's invocations and the transport's requests stay as
\* they were.
C5_NoRequestAfterClose ==
    [][Closed => (g'.Attempts = g.Attempts /\ called' = called /\
                  sent' = sent)]_vars

\* an outcome connect retries: a transport error, status 0, a 5xx
Retryable(o) ==
    o.err # "nil" \/ o.StatusCode = 0 \/ o.StatusCode \in 500..599

\* a step in which a request is executed
IsAttempt == sent' = sent + 1

\* an attempt with a retryable outcome fails, leaves the latch unset and
\* records nothing
RetryableRecordsNothing ==
    (IsAttempt /\ Retryable(seen'))
    => /\ since' # "ok"
       /\ ~g'.b.IsDone
       /\ g'.StatusCode = g.StatusCode /\ g'.Header = g.Header

\* the last attempt was retryable, the backoff gave a wait, and the latch
\* has not been set since
RetryDue == Retryable(seen) /\ since = "waited" /\ ~g.b.IsDone

\* when a retry is due, the next iteration of Retry's loop and the next Read
\* make an attempt
RetryDueAttempts == (RetryDue /\ (pc = "operation" \/ IsRead)) => IsAttempt

\* C7: a transport error, a status 0 and a 5xx are retryable: the attempt
\* returns an error, sets no latch and records no StatusCode/Header, and
\* unless the underlying backoff says stop the next iteration of Do's retry
\* loop or the next Read performs another attempt.
C7_RetryableIsRetried ==
    [][RetryableRecordsNothing /\ RetryDueAttempts]_vars

\* the same, for a Read that finds no body
RetriedWhenNoBody ==
    [][/\ RetryableRecordsNothing
       /\ g.Body.state = "nil" => RetryDueAttempts]_vars

\* the last response was a 4xx
Last4xx == seen.err = "nil" /\ seen.StatusCode \in 400..499

\* the very first attempt was answered with a 4xx
First4xx == first.StatusCode \in 400..499 /\ first.Header.req = 1

\* C4: a 4xx response is terminal.  After an attempt (first contact or
\* resume) answered with a status in 400..499 the backoff latch is set; no
\* later Read performs an attempt; and when the 4xx answers the very first
\* attempt, Do makes exactly one attempt and returns that response's status
\* code and header.
\* (Last4xx lasts until another attempt is made; the formula shows that no
\* Read and no Close makes one.  A new call of Do is not a later Read.)
C4_Terminal4xx ==
    /\ [](Last4xx => g.b.IsDone)
    /\ [][(Last4xx /\ IsRead) => (~IsAttempt /\ g'.Attempts = g.Attempts)]_vars
    /\ []((First4xx /\ doCalls = 1 /\ Last("Do"))
          => (g.Attempts = 1 /\ ret.StatusCode = first.StatusCode
                             /\ ret.Header = first.Header))

\* C4: a resume was answered with a 4xx, and a Read after the one that made
\* the attempt has returned
C4_ResumeRefused ==
    /\ Last4xx /\ lastReq.Range # NoRange /\ seen.Attempts >= 2
    /\ Last("Read") /\ readErrs = 2

\* C6: however many times Close is called and whatever else is called, the
\* close callback has run exactly once as soon as Close has been called, and
\* not before; after every Close the backoff latch is set and Body is absent.
C6_CloseOnce ==
    /\ Len(closes) = (IF closeCalls = 0 THEN 0 ELSE 1)
    /\ Last("Close") => (g.b.IsDone /\ g.Body = NilBody)

\* C6: Close has been called a second time, with a Do in between
C6_ClosedTwice ==
    closeCalls = 2 /\ doCalls = 2 /\ Last("Close") /\ Len(closes) = 1

\* C8: StatusCode, Header and ContentLength are written at most once, by the
\* first response that matches the expected status or is a terminal
\* mismatch; no later attempt changes them, and Do returns them.
C8_RecordedOnce ==
    /\ [](/\ g.StatusCode = first.StatusCode
          /\ g.Header = first.Header
          /\ g.ContentLength = ParseInt(first.Header.cl))
    /\ [][g.StatusCode > 0 => (/\ g'.StatusCode = g.StatusCode
                               /\ g'.Header = g.Header
                               /\ g'.ContentLength = g.ContentLength)]_vars
    /\ [](Last("Do") => (ret.StatusCode = g.StatusCode /\
                          ret.Header = g.Header))

\* C8: after a 200 was recorded, a later attempt was answered with a
\* terminal mismatch, and a second Do has returned
C8_LaterMismatch ==
    /\ g.StatusCode = 200
    /\ Conclusive(seen) /\ seen.StatusCode # 200 /\ seen.StatusCode # 206
    /\ seen.Attempts > first.Header.req
    /\ doCalls = 2 /\ Last("Do")

\* C9: the response callback has run once per attempt and per request
\* executed; each invocation saw its own attempt's response or error, the
\* getter's Attempts already counting that attempt, and a getter on which
\* the outcome had not yet been acted.
C9_CallbackPerAttempt ==
    /\ called = g.Attempts /\ called = sent
    /\ seen.Attempts = called
    /\ seen.early
    /\ (seen.err = "nil" /\ called > 0) => seen.Header.req = called
    /\ seen.err # "nil" => seen.Header = NilHeader

\* C9: attempts that ended in a transport error and in a response have both
\* been observed
C9_ErrorThenResponse ==
    called = 3 /\ seen.err = "transport" /\ first.StatusCode = 200

\* C10: an attempt that starts with BytesRead > 0 and ContentLength > 0
\* carries Range: bytes=BytesRead-(ContentLength-1); one that starts with
\* BytesRead = 0 carries no Range header; Range starts never decrease from
\* one attempt to the next and are never below the number of bytes delivered.
C10_RangeFromBytesRead ==
    [][IsAttempt =>
         /\ (g.BytesRead > 0 /\ g.ContentLength > 0)
              => lastReq'.Range = <<g.BytesRead, g.ContentLength - 1>>
         /\ g.BytesRead = 0 => lastReq'.Range = NoRange
         /\ (lastReq.Range # NoRange /\ lastReq'.Range # NoRange)
              => lastReq'.Range[1] >= lastReq.Range[1]
         /\ lastReq'.Range # NoRange
              => lastReq'.Range[1] >= Len(delivered)]_vars

\* C10: the third request resumed the download at byte 1, and the resource
\* has been read to its end
C10_ResumedTwice ==
    sent = 3 /\ lastReq.Range # NoRange /\ lastReq.Range[1] = 1
    /\ g.BytesRead = Len(Resource)

\* C11: the digest is the digest of the bytes Read has returned so far, each
\* once and in the order of delivery: of the empty sequence before any Read,
\* and of nothing else after failed attempts, zero-byte Reads, Close and
\* discarded responses.  (Stated from the first call of Do on: Do installs
\* the hasher.)
C11_DigestOfDelivered ==
    pc # "new" => (/\ Sha256(g) = <<"sha256", delivered>>
                   /\ g.BytesRead = Len(g.hasher))

\* C11: bytes were delivered, a later attempt was answered with a 5xx whose
\* body was discarded, and the getter was closed
C11_DiscardedAndClosed ==
    /\ delivered # <<>>
    /\ seen.err = "nil" /\ seen.StatusCode = 500 /\ seen.Attempts >= 2
    /\ Last("Close")

\* C12: QuittableBackOff, for the getter's backoff in every state it gets
\* into.  After Done, NextBackOff returns Stop and leaves the backoff as it
\* is (the underlying generator is neither asked nor advanced), so it does
\* for any number of calls; Reset clears the latch and resets the underlying
\* generator; and with the latch clear NextBackOff returns and does what the
\* underlying generator returns and does.
C12_QuittableLatch ==
    \A stop \in BOOLEAN :
       /\ Done(g.b).IsDone
       /\ NextBackOff(Done(g.b), stop) = [b |-> Done(g.b), next |-> Stop]
       /\ g.b.IsDone => NextBackOff(g.b, stop) = [b |-> g.b, next |-> Stop]
       /\ Reset(g.b) = [g.b EXCEPT !.IsDone = FALSE, !.b = 0]
       /\ LET u == UnderlyingNext(g.b.b, stop)
              r == UnderlyingNext(0, stop)
          IN /\ ~g.b.IsDone =>
                  NextBackOff(g.b, stop) = [b |-> [g.b EXCEPT !.b = u.b],
                                            next |-> u.next]
             /\ NextBackOff(Reset(g.b), stop).next = r.next

\* C12: the latch is set on a backoff whose generator has handed out waits,
\* and a Read has called NextBackOff on it
C12_AskedAfterDone ==
    /\ g.b.IsDone /\ g.b.b > 0
    /\ Last("Read") /\ ret.err = "EOF" /\ readErrs = 2

\* the Read of this step got io.EOF from a response body: the open one, or
\* the one of the response it has just connected to
EOFFromBody ==
    \/ g.Body.state = "open" /\ g.Body.end = "EOF"
    \/ IsAttempt /\ since' = "ok"

\* the Read of this step finds no body and the latch set
ReadWhenDone == IsRead /\ g.Body.state = "nil" /\ g.b.IsDone

\* the Read of this step made an attempt that failed, and the backoff (its
\* latch or its generator) said stop
ReadGaveUp == IsRead /\ IsAttempt /\ since' = "stopped"

HardFailure(err) == err \notin {"nil", "EOF"}

Only4xx == First4xx /\ ReadLoop

\* C14: when the first response is a 4xx, its body is open when Do returns;
\* the Reads that follow deliver the bytes of that body and nothing else,
\* then io.EOF and never another error; Attempts stays 1.
C14_ErrorBodyDelivered ==
    Only4xx =>
      /\ g.Attempts = 1
      /\ Last("Do") => (g.Body.state = "open" /\ g.Body.data = ErrorBody)
      /\ g.Body.state = "open" => delivered \o g.Body.data = ErrorBody
      /\ g.Body.state # "open" => (delivered = ErrorBody /\ Last("Read"))
      /\ Last("Read") =>
           /\ ret.err \in {"nil", "EOF"}
           /\ g.Body.state # "open" => ret.err = "EOF"

\* C14: the error body of a first 4xx has been read to its end, and Read has
\* been called once more
C14_ErrorBodyRead ==
    Only4xx /\ delivered = ErrorBody /\ Last("Read") /\ readErrs = 2

\* the very first attempt was answered with a 200 without Accept-Ranges:
\* bytes; Do has returned, and the caller has called nothing but Read since
NoRangesOnly ==
    /\ first.Header.req = 1 /\ first.StatusCode = 200
    /\ first.Header.ar # "bytes"
    /\ ReadLoop

\* the body that is open breaks off before the end of the resource
BreaksOff ==
    /\ g.Body.state = "open" /\ g.Body.end = "err"
    /\ Len(delivered \o g.Body.data) < Len(Resource)

\* C15: when the first response is a 200 without Accept-Ranges: bytes and its
\* body breaks off, the read loop delivers the bytes that were received, no
\* more and no less, and then ends with io.EOF; Read reports no other error,
\* and the one attempt stays the only one.
C15_TruncatedWithoutRanges ==
    /\ [](NoRangesOnly =>
            /\ g.Attempts = 1
            /\ g.Body.state # "closed"
            /\ IsPrefix(delivered \o g.Body.data, Resource)
            /\ Last("Read") => ret.err \in {"nil", "EOF"}
            /\ (Last("Read") /\ g.Body = NilBody /\ readErrs > 0)
                  => ret.err = "EOF")
    /\ [][(NoRangesOnly /\ BreaksOff /\ IsRead) =>
            /\ delivered' \o g'.Body.data = delivered \o g.Body.data
            /\ g'.Body # NilBody => (g'.Body.end = "err" /\ ret'.err = "nil")
            /\ ret'.err = "nil"]_vars
    /\ [][(NoRangesOnly /\ g.Body = NilBody /\ IsRead) =>
            /\ ret'.err = "EOF" /\ ret'.n = 0
            /\ g' = [g EXCEPT !.next = Stop]
            /\ UNCHANGED <<delivered, sent>>]_vars

\* C15: one byte of the resource arrived before the body broke off, and the
\* read loop has ended with io.EOF
C15_OneByteThenEOF ==
    /\ NoRangesOnly /\ srv.cl = "ok"
    /\ delivered = <<1>> /\ Last("Read") /\ ret.err = "EOF"

\* Do returned a 200 with Accept-Ranges: bytes and a Content-Length that is
\* the resource's length; every attempt so far was a transport error, a 5xx
\* or a request served as asked, its body whole or cut anywhere; the caller
\* has called nothing but Read since; a Read has just returned the first
\* error of the read loop; and the underlying policy has not said stop (a
\* failure that is returned comes from the latch, which only connect set)
ResumableLoopEnded ==
    /\ ReadLoop /\ plain
    /\ first.by = "Do" /\ first.StatusCode = 200
    /\ first.Header.ar = "bytes" /\ g.ContentLength = Len(Resource)
    /\ Last("Read") /\ ret.err # "nil" /\ readErrs = 1
    /\ ret.err # "EOF" => g.b.IsDone

\* C16, as far as a finite run can refute it: with a resumable first
\* response, a server that serves what is asked and failures that are
\* transport errors, 5xx responses and body drops, the read loop does not end
\* in a hard failure; the first error Read returns is io.EOF, with BytesRead
\* the resource's length.
C16_NoHardFailure ==
    ResumableLoopEnded =>
       (ret.err = "EOF" /\ g.BytesRead = Len(Resource))

\* the same, when the last request asked for bytes the resource has
NoHardFailureInRange ==
    (/\ ResumableLoopEnded
     /\ lastReq.Range # NoRange => Satisfiable(lastReq.Range))
    => (ret.err = "EOF" /\ g.BytesRead = Len(Resource))

\* backoff.Retry neither blocks between the operation and the backoff nor
\* sleeps for ever: each step of its loop is taken once it can be
FairSpec == Spec /\ WF_vars(RetryNext) /\ WF_vars(RetryOperation)

\* Do is inside backoff.Retry, after an operation that failed
InRetry == pc \in {"next", "operation"}

\* the retry loop has used up the attempts the model allows: every attempt
\* of it failed and the policy has not said stop
OutOfAttempts == pc = "operation" /\ g.Attempts = MaxAttempts

\* C17: Do returns only after an attempt succeeded or after the backoff
\* (latch or underlying policy) said stop following a failed attempt; what
\* it returns is the recorded status code and header, 0 and no header when
\* no response was recorded; the retry loop goes on only after a failed
\* attempt whose wait was granted, a terminal attempt sets the latch and
\* ends it at the next query, and the loop ends unless every attempt fails
\* and the policy never stops.
C17_DoReturns ==
    /\ [](Last("Do") =>
            /\ since \in {"ok", "stopped"}
            /\ since = "ok" => (seen.err = "nil" /\ g.Body.state = "open")
            /\ ret.StatusCode = g.StatusCode /\ ret.Header = g.Header
            /\ first = NoFirst =>
                  (ret.StatusCode = 0 /\ ret.Header = NilHeader))
    /\ [](pc = "next" => since = "failed")
    /\ [](pc = "operation" => (since = "waited" /\ ~g.b.IsDone))
    /\ (pc = "next" /\ g.b.IsDone) ~> Last("Do")
    /\ InRetry ~> (Last("Do") \/ OutOfAttempts)

\* Do gave up without any response: two attempts failed, the policy granted
\* one wait and then said stop, and Do returned 0 and no header
C17_GaveUpEmpty ==
    /\ Last("Do") /\ since = "stopped" /\ doCalls = 1
    /\ g.Attempts = 2 /\ first = NoFirst
    /\ ret.StatusCode = 0 /\ ret.Header = NilHeader

\* C18: the expected status of an attempt is 200 up to and including the
\* first successful response and 206 for every attempt after it, with one
\* call of Do and no Close; it never returns to 200, whatever was read of the
\* first response and whatever its Content-Length.
C18_ExpectedOnce ==
    [][(doCalls' = 1 /\ closeCalls = 0 /\ IsAttempt) =>
          lastReq'.expected = IF g.StatusCode = 200 THEN 206 ELSE 200]_vars

\* the same for the attempts that resume at a known offset
ExpectedWhenResuming ==
    [][(doCalls' = 1 /\ closeCalls = 0 /\ IsAttempt) =>
          lastReq'.expected =
             IF g.BytesRead > 0 /\ g.ContentLength > 0 THEN 206 ELSE 200]_vars

\* C19: between a failed attempt and the next attempt the backoff was asked,
\* gave a wait and not stop, and the wait has elapsed: an attempt starts only
\* at the beginning, after an attempt that succeeded, or after such a wait;
\* and when it starts, the callback has been shown every earlier attempt.
\* Stated for a getter on which Do is called once.
C19_WaitBeforeRetry ==
    [][(doCalls' = 1 /\ IsAttempt) =>
          (since \in {"none", "ok", "waited"} /\ called = sent)]_vars

\* the same, but for the attempts of a call made after the backoff said stop
WaitedUnlessStopped ==
    [][IsAttempt => (/\ since # "failed"
                     /\ since = "stopped" => pc = "ready"
                     /\ called = sent)]_vars

\* C20: with the latch set, connect fails at once and changes nothing: no
\* request reaches the transport, the callback is not invoked, and the
\* getter (Attempts, the request's Range, Body, StatusCode, Header,
\* ContentLength, BytesRead) is as it was, whatever the transport would
\* have answered.  Stated for every reachable getter, as it is when its
\* latch is set and as it would be were the latch set now.
C20_LatchedConnect ==
    \A gg \in {g, [g EXCEPT !.b = Done(@)]} :
       gg.b.IsDone =>
          \A c \in ChoicesFor(WithRange(gg).Range) :
             LET a == connect(gg, c)
             IN /\ a.err # "nil"
                /\ a.sent = <<>> /\ a.rcb = <<>>
                /\ a.g = gg

\* a Read called connect with the latch set, at an offset from which an
\* attempt would have resumed: nothing was sent and Range was not written
C20_LatchedAtOffset ==
    /\ Last("Read") /\ g.b.IsDone /\ g.Body = NilBody
    /\ g.BytesRead > 0 /\ g.ContentLength > 0
    /\ ret.err = "EOF" /\ ret.n = 0
    /\ g.Range = NoRange /\ sent = 1 /\ g.Attempts = 1

\* a step that is a Read which found no body open and made an attempt that
\* failed: the callback was given an error, or a status other than the
\* expected one
ReadAttemptFailed ==
    /\ IsRead /\ g.Body = NilBody /\ IsAttempt
    /\ (seen'.err # "nil" \/ seen'.StatusCode # lastReq'.expected)

\* the error connect returns for what the callback was shown
AttemptError(o) ==
    IF o.err # "nil" THEN o.err
    ELSE IF o.StatusCode = 0 THEN "EmptyResponse" ELSE "status"

\* C21: a Read that finds no body open and whose attempt fails returns
\* (0, nil) when the backoff gave a wait and (0, the attempt's error) when it
\* said stop; either way no byte is delivered and BytesRead and the digest
\* are as before.
C21_FailedAttemptInRead ==
    [][ReadAttemptFailed =>
          /\ ret'.n = 0 /\ delivered' = delivered
          /\ g'.BytesRead = g.BytesRead /\ Sha256(g') = Sha256(g)
          /\ g'.next # Stop => (ret'.err = "nil" /\ since' = "waited")
          /\ g'.next = Stop =>
                (ret'.err = AttemptError(seen') /\ since' = "stopped")]_vars

\* a resume attempt inside Read failed with a transport error and the policy
\* said stop: Read returned that error, and one byte had been read before
C21_ResumeGaveUp ==
    /\ Last("Read") /\ ret.err = "transport" /\ ret.n = 0
    /\ seen.err = "transport" /\ g.next = Stop /\ ~g.b.IsDone
    /\ lastReq.expected = 206 /\ g.BytesRead = 1 /\ delivered = <<1>>

\* a step that is a Read whose attempt succeeded: the callback was given
\* the expected status and no error
ReadAttemptSucceeded ==
    /\ IsRead /\ IsAttempt
    /\ seen'.err = "nil" /\ seen'.StatusCode = lastReq'.expected

\* C22: when an attempt made inside Read succeeds the backoff starts afresh,
\* and the latch that this response set, being the first recorded and
\* lacking Accept-Ranges: bytes, stays set.
C22_ResetKeepsLatch ==
    [][ReadAttemptSucceeded =>
          /\ g'.b.b = 0
          /\ (g.StatusCode = 0 /\ g'.Header.ar # "bytes") => g'.b.IsDone]_vars

\* the first half alone: the underlying policy starts afresh, and the latch
\* is clear whatever the response said
ResetClearsAll ==
    [][ReadAttemptSucceeded => (g'.b.b = 0 /\ ~g'.b.IsDone)]_vars

\* the last attempt was a resume (206 expected) answered with another status
\* (a response without a status, StatusCode 0, is connect's EmptyResponse)
ResumeRefused ==
    /\ seen.err = "nil" /\ lastReq.expected = 206
    /\ seen.StatusCode > 0 /\ seen.StatusCode # 206

\* C23: a resume attempt answered with a status other than 206 delivers
\* nothing of that response and leaves Body absent; a 5xx leaves the latch
\* alone and the next Read, after the wait and unless Close came between,
\* attempts again; any other status
\* sets the latch, after which no Read attempts; StatusCode and Header stay
\* those of the first contact.
C23_ResumeMismatch ==
    /\ [][(IsAttempt /\ ResumeRefused') =>
             /\ g'.Body = NilBody
             /\ delivered' = delivered /\ g'.BytesRead = g.BytesRead
             /\ g'.StatusCode = g.StatusCode /\ g'.Header = g.Header
             /\ g.StatusCode = first.StatusCode /\ g.Header = first.Header
             /\ g'.b.IsDone = ~(seen'.StatusCode \in 500..599)]_vars
    /\ [][(ResumeRefused /\ g.b.IsDone /\ IsRead) =>
             (~IsAttempt /\ g'.Attempts = g.Attempts)]_vars
    /\ [][(ResumeRefused /\ since = "waited" /\ ~g.b.IsDone /\ IsRead)
             => IsAttempt]_vars

\* a resume was answered with 200 and the whole resource; the Read that made
\* the attempt returned the error, and the Read after it end-of-stream
C23_WholeInsteadOfPart ==
    /\ ResumeRefused /\ seen.StatusCode = 200 /\ g.b.IsDone
    /\ Last("Read") /\ readErrs = 2 /\ ret.err = "EOF"
    /\ g.Body = NilBody /\ delivered = <<1>>

\* the last attempt failed as retryable and no attempt has been made since
AfterRetryable == Retryable(seen) /\ since \in {"failed", "waited", "stopped"}

\* C24: after an attempt that fails as retryable (transport error, status 0
\* or 5xx, whichever status was expected) Body is absent, until the next
\* attempt.
C24_NoStaleBody == AfterRetryable => g.Body = NilBody

\* what a retryable failure does to Body: a transport error and a status 0
\* leave it as it was, a 5xx that answers a resume leaves it absent, and a
\* 5xx that answers a request expecting 200 leaves the drained, closed body
BodyAfterRetryable ==
    [][(IsAttempt /\ Retryable(seen')) =>
          g'.Body = IF ~(seen'.StatusCode \in 500..599) THEN g.Body
                    ELSE IF lastReq'.expected = 206 THEN NilBody
                    ELSE ClosedBody]_vars

\* a step that is a Read which read from a body, one open before or one
\* its own attempt opened, and got an error from it: the body is gone
BodyGaveError ==
    /\ IsRead /\ g'.Body = NilBody
    /\ (g.Body # NilBody \/ ReadAttemptSucceeded)

\* what such a Read does: Body is absent, the bytes that came with the error
\* are delivered, counted and hashed, and only io.EOF reaches the caller
ErrorFromBody ==
    BodyGaveError =>
       /\ Len(delivered') = Len(delivered) + ret'.n
       /\ g'.BytesRead = g.BytesRead + ret'.n
       /\ Sha256(g') = <<"sha256", delivered'>>
       /\ ret'.err \in {"nil", "EOF"}
       /\ g.Body # NilBody => ((ret'.err = "EOF") <=> (g.Body.end = "EOF"))

\* the last call was a Read that swallowed an error of the body of a
\* successful attempt
Swallowed ==
    Last("Read") /\ g.Body = NilBody /\ ret.err = "nil" /\ since = "ok"

\* C25: when a read of the open body returns an error, Body is absent when
\* Read returns, the bytes that came with the error are delivered and
\* counted, an error other than io.EOF is not surfaced, and the next Read
\* starts a fresh attempt.
C25_BodyErrorThenAttempt ==
    /\ [][ErrorFromBody]_vars
    /\ [][(Swallowed /\ IsRead) => IsAttempt]_vars

\* C25 with the latch: the next Read starts a fresh attempt exactly when the
\* latch is not set, and returns io.EOF with no byte when it is
C25_BodyErrorThenConnect ==
    /\ [][ErrorFromBody]_vars
    /\ [][(Swallowed /\ IsRead) =>
             /\ IsAttempt <=> ~g.b.IsDone
             /\ g.b.IsDone => (ret'.err = "EOF" /\ ret'.n = 0)]_vars

\* a body broke off after its first byte, which came with the error; Read
\* returned (1, nil), and the next Read made the resume attempt
C25_ByteWithError ==
    /\ Last("Read") /\ doCalls = 1 /\ closeCalls = 0 /\ readErrs = 0
    /\ sent = 2 /\ lastReq.Range = <<1, 1>> /\ seen.StatusCode = 206
    /\ first.by = "Do" /\ delivered = Resource

\* C26: BytesRead is the number of bytes the Reads have returned so far; it
\* never decreases, and it changes only in a Read that returns at least one
\* byte, by that many: Do, the retry loop, failed attempts and Close leave it.
C26_BytesReadIsCount ==
    /\ [](g.BytesRead = Len(delivered))
    /\ [][/\ g'.BytesRead >= g.BytesRead
          /\ g'.BytesRead # g.BytesRead =>
                (IsRead /\ ret'.n >= 1 /\ g'.BytesRead = g.BytesRead + ret'.n)
          /\ (IsRead /\ ret'.n >= 1) => g'.BytesRead > g.BytesRead]_vars

\* one byte was read, Close was called, and a second Do made an attempt that
\* failed: BytesRead is still 1
C26_KeptAcrossCloseAndDo ==
    /\ Last("Do") /\ doCalls = 2 /\ closeCalls = 1 /\ since = "stopped"
    /\ g.BytesRead = 1 /\ delivered = <<1>> /\ sent = 2

\* C27: every Range header the getter sends denotes a non-empty range inside
\* the resource, first <= last <= length - 1; stated for a getter whose
\* first response was a 200 with the resource's length as Content-Length, on
\* which Do was called once and no Read has returned an error yet.
C27_RangeInsideResource ==
    (/\ doCalls = 1 /\ readErrs = 0 /\ first.StatusCode = 200
     /\ g.ContentLength = Len(Resource) /\ lastReq.Range # NoRange)
    => (/\ lastReq.Range[1] <= lastReq.Range[2]
        /\ lastReq.Range[2] <= Len(Resource) - 1)

\* the download is complete: with Do called once and no Close, a Read has
\* returned io.EOF as the first error, from a body that delivered the whole
\* resource, and no attempt has been made since
Completed ==
    /\ doCalls = 1 /\ closeCalls = 0 /\ pc = "ready"
    /\ readErrs >= 1 /\ delivered = Resource /\ since = "ok"
    /\ g.StatusCode = 200 /\ g.Body = NilBody
    /\ ret.op = "Read" /\ ret.err = "EOF"

\* C28: completion is terminal: once a Read has returned io.EOF from a fully
\* delivered body, a further Read returns no byte and an error (io.EOF or
\* another), and makes no attempt, whether or not the first response said
\* Accept-Ranges: bytes.
C28_CompletionIsTerminal ==
    [][(Completed /\ IsRead) =>
          (~IsAttempt /\ g'.Attempts = g.Attempts
           /\ ret'.n = 0 /\ ret'.err # "nil")]_vars

\* the same for a response without Accept-Ranges: bytes that Do obtained
TerminalWithoutRanges ==
    [][(Completed /\ first.by = "Do" /\ g.Header.ar # "bytes" /\ IsRead) =>
          (~IsAttempt /\ g'.Attempts = g.Attempts
           /\ ret'.n = 0 /\ ret'.err = "EOF" /\ Completed')]_vars

\* the last Read or Write on the connection has returned
ConnDone == conn.pc = "idle" /\ conn.op # "none"

\* C29: a Read or Write on a connection of the timeout dialer first sets the
\* deadline to now plus the inactivity timeout and only then calls the
\* underlying Read or Write; when setting the deadline fails it returns 0
\* and that error and the underlying call is not made; and when the peer
\* lets the underlying call wait longer than the inactivity timeout, the
\* call returns 0 and a timeout.
C29_DeadlineBeforeIO ==
    /\ conn.pc = "armed" =>
          (/\ conn.deadline = <<conn.now + conn.Timeout>>
           /\ ~conn.touched)
    /\ (ConnDone /\ conn.ret.err = "deadline") =>
          (conn.ret.n = 0 /\ ~conn.touched)
    /\ (ConnDone /\ conn.ret.err # "deadline") => conn.touched
    /\ (ConnDone /\ conn.touched /\ conn.silent > conn.Timeout) =>
          (conn.ret = [n |-> 0, err |-> "timeout"])

\* a Read waited for a peer silent for longer than the timeout and failed
\* with a timeout, some time after the connection was dialed
C29_SilentPeer ==
    /\ ConnDone /\ conn.op = "Read" /\ conn.touched
    /\ conn.silent > conn.Timeout /\ conn.ret.err = "timeout"
    /\ conn.now > conn.Timeout + 1

\* no timeout without cause: bytes that move before the timeout has passed
\* are returned
NoEarlyTimeout ==
    (ConnDone /\ conn.touched /\ conn.silent < conn.Timeout) =>
       conn.ret = [n |-> 1, err |-> "nil"]

=============================================================================
